---- MODULE Spec2Model ----
(***************************************************************************)
(* Theme switching logic of static/script.js: the preference store         *)
(* (localStorage key 'theme'), the resolver getPreferredTheme, the applier *)
(* setTheme, the load-time call, the DOMContentLoaded binding and the      *)
(* click handler, together with the browser around them (the platform      *)
(* dark-mode signal, the page markup, reloads).                            *)
(***************************************************************************)
EXTENDS Naturals, FiniteSets, Sequences, TLC

VARIABLES
    store,        \* localStorage as the page sees it: Unavailable, Absent or the string under 'theme'
    prefersDark,  \* window.matchMedia('(prefers-color-scheme: dark)').matches
    page,         \* the markup this script is served with (fixed for the page)
    attr,         \* document.documentElement's data-bs-theme (NoVal: no attribute)
    iconClass,    \* className of '#themeToggle i' (NoVal: no such element)
    pc,           \* position of the page: start, resolved, loaded, ready, aborted
    resolved,     \* value returned by the getPreferredTheme() call of line 26
    handlers,     \* number of click handlers bound to #themeToggle
    uncaught,     \* an exception escaped the script on this page load
    lastClick,    \* outcome of the last click handled on this page: none, ok, threw
    before1,      \* data-bs-theme before the last click handled on this page
    before2,      \* data-bs-theme before the click handled before that one
    lastWritten,  \* value of the last successful setStoredTheme call (NoVal: none yet)
    prevCall,     \* inputs and result of the latest getPreferredTheme() call, and
                  \* whether the call before it had the same inputs
    store0,       \* what the storage held before the script first ran
    lastSet,      \* argument of the latest setTheme call on this page (NoVal: none yet)
    everClicked   \* a click has been handled since the script first ran

vars == <<store, prefersDark, page, attr, iconClass, pc, resolved, handlers,
          uncaught, lastClick, before1, before2, lastWritten, prevCall,
          store0, lastSet, everClicked>>

-----------------------------------------------------------------------------
(* Values *)

NoVal == "<null>"
Absent == "<absent>"
Unavailable == "<unavailable>"

Theme == {"light", "dark"}

\* Strings the storage medium may hold under the key before the script runs:
\* the two themes, the empty string and an unrecognised word.
StoreStrings == {"light", "dark", "", "blue"}

SunClass == "bi bi-sun-fill fs-5"
MoonClass == "bi bi-moon-stars-fill fs-5"
OtherClass == "bi bi-circle-half fs-5"

\* Class the markup gives the icon before any script touches it.
MarkupClasses == {SunClass, MoonClass, OtherClass}

\* data-bs-theme the markup gives the root element before any script runs.
MarkupAttrs == {NoVal, "light", "dark"}

\* The pages the script may be served with: whether #themeToggle and its <i>
\* exist, whether they are parsed before the script is evaluated, and the
\* attribute values the markup starts with.
Pages ==
    { p \in [btn : BOOLEAN, icon : BOOLEAN, early : BOOLEAN,
             markAttr : MarkupAttrs, markClass : MarkupClasses \cup {NoVal}] :
        /\ p.icon => p.btn
        /\ p.icon <=> (p.markClass # NoVal) }

-----------------------------------------------------------------------------
(* Functions of the script *)

\* JavaScript truthiness of a value read from storage: null and '' are falsy.
Truthy(v) == v \notin {NoVal, ""}

\* localStorage.getItem('theme'): null when the key is not set.
getStoredTheme(st) == IF st = Absent THEN NoVal ELSE st

setStoredTheme_WrongKey(theme, st) == st

\* localStorage.setItem('theme', theme): the new content of the key.
setStoredTheme(theme, st) == theme

getPreferredTheme_SignalFirst(st, dark) ==
    IF dark THEN "dark"
    ELSE IF Truthy(getStoredTheme(st)) THEN getStoredTheme(st) ELSE "light"

getPreferredTheme_Inverted(st, dark) ==
    LET storedTheme == getStoredTheme(st)
    IN  IF Truthy(storedTheme) THEN storedTheme
        ELSE IF dark THEN "light" ELSE "dark"

\* getPreferredTheme() for a readable store st and platform signal dark.
getPreferredTheme(st, dark) ==
    LET storedTheme == getStoredTheme(st)
    IN  IF Truthy(storedTheme) THEN storedTheme
        ELSE IF dark THEN "dark" ELSE "light"

setTheme_Normalising(theme, found, cls) ==
    [attr  |-> IF theme = "dark" THEN "dark" ELSE "light",
     cls   |-> IF found
               THEN (IF theme = "dark" THEN SunClass ELSE MoonClass)
               ELSE cls,
     threw |-> FALSE]

setTheme_Toggling(theme, found, cls) ==
    [attr  |-> theme,
     cls   |-> IF found
               THEN (IF cls = SunClass THEN MoonClass ELSE SunClass)
               ELSE cls,
     threw |-> FALSE]

\* setTheme(theme): the root attribute and the icon class it leaves, where
\* found says whether querySelector('#themeToggle i') returns an element and
\* cls is the icon's class before the call.
setTheme(theme, found, cls) ==
    [attr  |-> theme,
     cls   |-> IF found
               THEN (IF theme = "dark" THEN SunClass ELSE MoonClass)
               ELSE cls,
     threw |-> FALSE]

bindClick_NoGuard(found, h) ==
    IF found THEN [handlers |-> h + 1, threw |-> FALSE]
    ELSE [handlers |-> h, threw |-> TRUE]

\* The DOMContentLoaded listener: bind one click handler when
\* getElementById('themeToggle') returns an element.
bindClick(found, h) ==
    IF found THEN [handlers |-> h + 1, threw |-> FALSE]
    ELSE [handlers |-> h, threw |-> FALSE]

Flip_ThreeWay(currentTheme) ==
    IF currentTheme = "dark" THEN "light"
    ELSE IF currentTheme = "light" THEN "dark" ELSE "auto"

\* newTheme of the click handler.
Flip(currentTheme) == IF currentTheme = "dark" THEN "light" ELSE "dark"

\* The record of a getPreferredTheme() call, before any call is made.
NoCall ==
    [made |-> FALSE, store |-> NoVal, dark |-> FALSE, ret |-> NoVal,
     repeat |-> FALSE]

-----------------------------------------------------------------------------
(* State machine *)

Init ==
    /\ store \in {Unavailable, Absent} \cup StoreStrings
    /\ prefersDark \in BOOLEAN
    /\ page \in Pages
    /\ attr = page.markAttr
    /\ iconClass = page.markClass
    /\ pc = "start"
    /\ resolved = NoVal
    /\ handlers = 0
    /\ uncaught = FALSE
    /\ lastClick = "none"
    /\ before1 = NoVal
    /\ before2 = NoVal
    /\ lastWritten = NoVal
    /\ prevCall = NoCall
    /\ store0 = store
    /\ lastSet = NoVal
    /\ everClicked = FALSE

Resolve_Caching ==
    /\ pc = "start"
    /\ IF store = Unavailable
       THEN /\ pc' = "aborted"
            /\ uncaught' = TRUE
            /\ UNCHANGED <<resolved, prevCall, store>>
       ELSE /\ resolved' = getPreferredTheme(store, prefersDark)
            /\ prevCall' = [made |-> TRUE, store |-> store,
                            dark |-> prefersDark, ret |-> resolved',
                            repeat |-> /\ prevCall.made
                                       /\ prevCall.store = store
                                       /\ prevCall.dark = prefersDark]
            /\ store' = resolved'
            /\ pc' = "resolved"
            /\ UNCHANGED uncaught
    /\ UNCHANGED <<prefersDark, page, attr, iconClass, handlers,
                   lastClick, before1, before2, lastWritten, store0, lastSet,
                   everClicked>>

\* Line 26, the argument: getPreferredTheme() is evaluated.  A store whose
\* access throws ends the script there: setTheme is not called and the
\* DOMContentLoaded listener of line 28 is never registered.
Resolve ==
    /\ pc = "start"
    /\ IF store = Unavailable
       THEN /\ pc' = "aborted"
            /\ uncaught' = TRUE
            /\ UNCHANGED <<resolved, prevCall>>
       ELSE /\ resolved' = getPreferredTheme(store, prefersDark)
            /\ prevCall' = [made |-> TRUE, store |-> store,
                            dark |-> prefersDark, ret |-> resolved',
                            repeat |-> /\ prevCall.made
                                       /\ prevCall.store = store
                                       /\ prevCall.dark = prefersDark]
            /\ pc' = "resolved"
            /\ UNCHANGED uncaught
    /\ UNCHANGED <<store, prefersDark, page, attr, iconClass, handlers,
                   lastClick, before1, before2, lastWritten, store0, lastSet,
                   everClicked>>

Apply_NoSetTheme ==
    /\ pc = "resolved"
    /\ pc' = "loaded"
    /\ UNCHANGED <<store, prefersDark, page, attr, iconClass, resolved,
                   handlers, uncaught, lastClick, before1, before2,
                   lastWritten, prevCall, store0, lastSet,
                   everClicked>>

\* Line 26, the call: setTheme(<the resolved theme>), then line 28 registers
\* the DOMContentLoaded listener.  The icon is found only if the markup is
\* parsed before the script.
Apply ==
    /\ pc = "resolved"
    /\ LET r == setTheme(resolved, page.icon /\ page.early, iconClass)
       IN  /\ attr' = r.attr
           /\ iconClass' = r.cls
           /\ uncaught' = (uncaught \/ r.threw)
           /\ pc' = IF r.threw THEN "aborted" ELSE "loaded"
    /\ lastSet' = resolved
    /\ UNCHANGED <<store, prefersDark, page, resolved, handlers,
                   lastClick, before1, before2, lastWritten, prevCall, store0,
                   everClicked>>

\* The document has finished parsing: the listener of lines 28-38 runs.
DOMContentLoaded ==
    /\ pc = "loaded"
    /\ LET b == bindClick(page.btn, handlers)
       IN  /\ handlers' = b.handlers
           /\ uncaught' = (uncaught \/ b.threw)
    /\ pc' = "ready"
    /\ UNCHANGED <<store, prefersDark, page, attr, iconClass, resolved,
                   lastClick, before1, before2, lastWritten, prevCall,
                   store0, lastSet,
                   everClicked>>

\* A click on #themeToggle whose setItem succeeds (lines 32-35).
ClickStored ==
    /\ pc = "ready"
    /\ handlers > 0
    /\ LET currentTheme == attr
           newTheme == Flip(currentTheme)
           r == setTheme(newTheme, page.icon, iconClass)
       IN  /\ store' = setStoredTheme(newTheme, store)
           /\ lastWritten' = newTheme
           /\ attr' = r.attr
           /\ iconClass' = r.cls
           /\ uncaught' = (uncaught \/ r.threw)
           /\ before1' = currentTheme
           /\ lastSet' = newTheme
    /\ before2' = before1
    /\ lastClick' = "ok"
    /\ everClicked' = TRUE
    /\ UNCHANGED <<prefersDark, page, pc, resolved, handlers, prevCall,
                   store0>>

ClickWriteThrows_ThemeFirst ==
    /\ pc = "ready"
    /\ handlers > 0
    /\ LET newTheme == Flip(attr)
           r == setTheme(newTheme, page.icon, iconClass)
       IN  /\ attr' = r.attr
           /\ iconClass' = r.cls
           /\ lastSet' = newTheme
    /\ uncaught' = TRUE
    /\ before1' = attr
    /\ before2' = before1
    /\ lastClick' = "threw"
    /\ everClicked' = TRUE
    /\ UNCHANGED <<store, prefersDark, page, pc, resolved, handlers,
                   lastWritten, prevCall, store0>>

\* A click on #themeToggle whose setItem throws (quota exceeded): the
\* exception leaves the handler at line 34, before setTheme.
ClickWriteThrows ==
    /\ pc = "ready"
    /\ handlers > 0
    /\ uncaught' = TRUE
    /\ before1' = attr
    /\ before2' = before1
    /\ lastClick' = "threw"
    /\ everClicked' = TRUE
    /\ UNCHANGED <<store, prefersDark, page, attr, iconClass, pc, resolved,
                   handlers, lastWritten, prevCall, store0, lastSet>>

\* The user reloads the page: the document is rebuilt from the markup, the
\* script will run again, localStorage keeps its content.
Reload ==
    /\ pc \in {"loaded", "ready", "aborted"}
    /\ pc' = "start"
    /\ attr' = page.markAttr
    /\ iconClass' = page.markClass
    /\ resolved' = NoVal
    /\ handlers' = 0
    /\ uncaught' = FALSE
    /\ lastClick' = "none"
    /\ before1' = NoVal
    /\ before2' = NoVal
    /\ lastSet' = NoVal
    /\ UNCHANGED <<store, prefersDark, page, lastWritten, prevCall, store0,
                   everClicked>>

\* The operating environment switches its colour scheme.  Line 26 runs to
\* completion, so the signal does not change between its two steps.
PlatformChange ==
    /\ pc # "resolved"
    /\ prefersDark' = ~prefersDark
    /\ UNCHANGED <<store, page, attr, iconClass, pc, resolved, handlers,
                   uncaught, lastClick, before1, before2, lastWritten,
                   prevCall, store0, lastSet,
                   everClicked>>

Next ==
    \/ Resolve
    \/ Apply
    \/ DOMContentLoaded
    \/ ClickStored
    \/ ClickWriteThrows
    \/ Reload
    \/ PlatformChange

Spec == Init /\ [][Next]_vars

TypeOK ==
    /\ store \in {Unavailable, Absent} \cup StoreStrings
    /\ prefersDark \in BOOLEAN
    /\ page \in Pages
    /\ attr \in MarkupAttrs \cup StoreStrings
    /\ iconClass \in MarkupClasses \cup {NoVal}
    /\ pc \in {"start", "resolved", "loaded", "ready", "aborted"}
    /\ handlers \in {0, 1}
    /\ uncaught \in BOOLEAN
    /\ lastClick \in {"none", "ok", "threw"}
    /\ lastWritten \in Theme \cup {NoVal}

-----------------------------------------------------------------------------
(* Properties *)

\* The icon class setTheme gives a theme.
IconFor(t) == IF t = "dark" THEN SunClass ELSE MoonClass

\* The theme the platform signal names.
SignalTheme == IF prefersDark THEN "dark" ELSE "light"

\* C1 (as stated): whenever the key 'theme' holds any string at all, the
\* getPreferredTheme() call returns that string, whatever the platform signal.
C1_AnyStoredValueDominates ==
    (pc = "resolved" /\ store \in StoreStrings) => resolved = store

\* C1 (amended): whenever the read of the key 'theme' returns a non-empty
\* string, getPreferredTheme() returns that string, whatever the platform
\* signal; the empty string counts as no preference.
C1_OverrideDominance ==
    /\ (pc = "resolved" /\ store \in StoreStrings \ {""}) => resolved = store
    /\ (pc = "resolved" /\ store = "") => resolved = SignalTheme

\* C1 witness: a stored 'light' has been returned against a dark signal.
C1_Witness ==
    pc = "resolved" /\ store = "light" /\ prefersDark /\ resolved = "light"

\* C2: once the initial setTheme call has run, data-bs-theme is 'light' or
\* 'dark' in every state.
C2_AppliedThemeIsTheme ==
    pc \in {"loaded", "ready"} => attr \in Theme

\* C3: after every click the toggle handler handled, data-bs-theme and the
\* storage key 'theme' hold the same value.
C3_ClickLeavesConsistent ==
    lastClick # "none" => attr = store

\* C4: from data-bs-theme = light one click gives data-bs-theme = dark and
\* stored 'dark'; two consecutive clicks from a theme in {light, dark}
\* restore the theme they started from.
C4_ToggleRoundTrip ==
    /\ (lastClick # "none" /\ before1 = "light")
          => (attr = "dark" /\ store = "dark")
    /\ (lastClick # "none" /\ before2 \in Theme) => attr = before2

\* C5: with no stored preference getPreferredTheme() returns the theme the
\* platform signal names, and the initial setTheme call applies that theme.
C5_PlatformFallback ==
    /\ []((pc = "resolved" /\ store = Absent) => resolved = SignalTheme)
    /\ [][(pc = "resolved" /\ store = Absent) => attr' = SignalTheme]_vars

\* C5 witness: a fresh session under a dark signal has been given 'dark'.
C5_Witness ==
    /\ pc = "loaded" /\ store = Absent /\ lastWritten = NoVal
    /\ resolved = "dark" /\ attr = "dark"

\* C6: the store keeps the value the last click wrote, and the initial
\* setTheme call of every later page load applies that value, whatever the
\* platform signal is then.
C6_PersistenceAcrossReloads ==
    /\ [](lastWritten # NoVal => store = lastWritten)
    /\ [][(pc = "resolved" /\ lastWritten # NoVal) => attr' = lastWritten]_vars

\* C6 witness: a page reloaded after a click that wrote 'light' shows 'light'
\* under a dark signal.
C6_Witness ==
    /\ pc = "loaded" /\ lastClick = "none" /\ lastWritten = "light"
    /\ attr = "light" /\ prefersDark

\* C7: once the document is parsed the icon's class is the sun set when
\* data-bs-theme is dark and the moon set otherwise, after load and after
\* each click.
C7_IconSynchronized ==
    (pc = "ready" /\ page.icon) => iconClass = IconFor(attr)

\* C8: with no icon element setTheme still sets the root attribute and
\* throws nothing; with no toggle button the DOMContentLoaded listener binds
\* nothing and throws nothing, and afterwards neither data-bs-theme nor the
\* stored value changes while the page lives.
C8_MissingElementResilience ==
    /\ [][(pc = "resolved" /\ ~(page.icon /\ page.early))
            => (attr' = resolved /\ iconClass' = iconClass
                /\ ~uncaught' /\ pc' = "loaded")]_vars
    /\ []((pc = "ready" /\ ~page.btn) => (handlers = 0 /\ ~uncaught))
    /\ [][(pc = "ready" /\ ~page.btn /\ pc' = "ready")
            => (attr' = attr /\ store' = store /\ handlers' = 0)]_vars

\* C8 witness: a parsed page with no toggle button, the theme applied.
C8_Witness ==
    /\ pc = "ready" /\ ~page.btn /\ handlers = 0 /\ ~uncaught
    /\ attr = resolved /\ iconClass = NoVal

\* C9: when storage throws, at load or on a click, the page still gets the
\* platform's theme applied, the handler is still bound, a click still flips
\* the theme, and no exception escapes.
C9_StorageFailureDegrades ==
    /\ pc # "aborted"
    /\ (store = Unavailable /\ pc \in {"loaded", "ready"}) => attr \in Theme
    /\ lastClick = "threw" => attr = Flip(before1)

\* C10: the getPreferredTheme() call changes neither the storage key, the
\* root attribute nor the icon class, and a call made with the store content
\* and the platform signal of the previous call returns what that call did.
C10_ResolverPureAndIdempotent ==
    [][(pc = "start" /\ pc' = "resolved")
         => /\ store' = store
            /\ attr' = attr
            /\ iconClass' = iconClass
            /\ (prevCall.made /\ prevCall.store = store
                    /\ prevCall.dark = prefersDark)
                 => resolved' = prevCall.ret]_vars

\* C10 witness: a call has returned whose store content and platform signal
\* were those of the call before it, on a fresh store under a dark signal.
C10_Witness ==
    /\ pc = "resolved" /\ prevCall.repeat /\ store = Absent
    /\ prefersDark /\ resolved = "dark"

\* C11: on a session that starts with no key 'theme', the key stays absent
\* until a click is handled, is present once the first click has been
\* handled, and a key that is present never becomes absent again.
C11_StoredPreferenceLifecycle ==
    /\ (store0 = Absent /\ lastWritten = NoVal /\ lastClick = "none")
          => store = Absent
    /\ (store0 = Absent /\ lastClick # "none") => store \in StoreStrings
    /\ (store0 \in StoreStrings \/ lastWritten # NoVal)
          => store \in StoreStrings

\* C12: once setTheme has been called on a page, data-bs-theme is exactly
\* the argument of the latest call, and the attribute changes only in a step
\* that calls setTheme (the load-time call or a click whose write succeeded);
\* a reload starts a new document.
C12_AttributeIsLastSetTheme ==
    /\ [](lastSet # NoVal => attr = lastSet)
    /\ [][attr' # attr
            => \/ pc = "resolved"
               \/ (pc = "ready" /\ lastClick' = "ok")
               \/ pc' = "start"]_vars

\* C12 witness: an unrecognised stored word has been applied as it is, over
\* a markup attribute of 'dark'.
C12_Witness ==
    /\ pc = "ready" /\ lastSet = "blue" /\ attr = "blue"
    /\ page.markAttr = "dark" /\ lastClick = "none"

\* C13: every click handled flips the theme, from 'dark' to 'light' and from
\* anything else to 'dark', and flips it once: at most one handler is bound.
C13_EveryClickFlips ==
    /\ lastClick # "none" => attr = Flip(before1)
    /\ handlers <= 1

\* C14: the click handler is bound only in a step taken after the load phase
\* has finished (the resolver has returned and the first setTheme call has
\* set the root attribute), so whenever a handler is bound or a click has
\* been handled, an initial theme has been applied on this page.
C14_PhaseOrdering ==
    /\ [][handlers' > handlers
            => (pc = "loaded" /\ lastSet # NoVal /\ attr = resolved)]_vars
    /\ []((pc = "ready" \/ handlers > 0 \/ lastClick # "none")
            => (lastSet # NoVal /\ attr = lastSet))

\* C14 witness: a click has been handled, and the theme it read was the one
\* the load phase had applied.
C14_Witness ==
    /\ pc = "ready" /\ handlers = 1 /\ lastClick = "ok"
    /\ before2 = NoVal /\ before1 = resolved /\ lastSet = Flip(resolved)

\* C15: in every state of the document, for every theme argument t (a theme
\* or any other string) and whether or not the icon element is found, a
\* second setTheme(t) right after a first leaves the root attribute and the
\* icon class as the first call left them, and throws nothing.
C15_SetThemeIdempotent ==
    \A t \in StoreStrings \cup Theme :
        \A found \in {f \in BOOLEAN : f => page.icon} :
            LET once  == setTheme(t, found, iconClass)
                twice == setTheme(t, found, once.cls)
            IN  /\ twice.attr = once.attr
                /\ twice.cls = once.cls
                /\ twice.attr = t
                /\ ~once.threw /\ ~twice.threw

\* C15 witness: setTheme('dark') has replaced the markup's icon class by the
\* sun set; the state a repeated call starts from.
C15_Witness ==
    /\ lastSet = "dark" /\ attr = "dark" /\ page.icon
    /\ page.markClass = OtherClass /\ iconClass = SunClass

\* C16: every value the script writes to the key 'theme' is 'light' or
\* 'dark': in every state the stored value is what the storage held before
\* the script first ran, or, once a write has succeeded, one of the two
\* themes.
C16_OnlyThemesWritten ==
    /\ store \in {store0} \cup Theme
    /\ lastWritten \in Theme \cup {NoVal}
    /\ lastWritten = NoVal => store = store0

\* C16 witness: an unrecognised stored word has been replaced by a click's
\* write and the page reloaded.
C16_Witness ==
    /\ store0 = "blue" /\ store = "dark" /\ lastWritten = "dark"
    /\ lastClick = "none" /\ pc = "ready"

\* The icon element is in the document as parsed so far.
IconInDocument ==
    page.icon /\ (pc = "ready" \/ (pc = "loaded" /\ page.early))

\* C17: once a first click has been handled, in every later state of a
\* loaded page, on this page load and after reloads, data-bs-theme is
\* 'light' or 'dark', equals the stored value, and the icon class matches it.
C17_SelfHealingAfterFirstClick ==
    (everClicked /\ pc \in {"loaded", "ready"})
        => /\ attr \in Theme
           /\ attr = store
           /\ IconInDocument => iconClass = IconFor(attr)

\* C18: a click whose setStoredTheme throws changes neither data-bs-theme,
\* the icon class nor the stored value: after it the attribute is the one the
\* click found, so the applied theme never moves ahead of a failed write.
C18_FailedWriteChangesNothing ==
    /\ [][lastClick' = "threw"
            => (attr' = attr /\ iconClass' = iconClass /\ store' = store
                /\ lastWritten' = lastWritten)]_vars
    /\ [](lastClick = "threw" => (attr = before1 /\ attr = lastSet))

\* C18 witness: on a fresh session under a dark theme a click's write has
\* thrown; attribute, icon and key are as the click found them.
C18_Witness ==
    /\ lastClick = "threw" /\ uncaught /\ store = Absent
    /\ before1 = "dark" /\ attr = "dark" /\ iconClass = SunClass

====
